---- MODULE Spec2Model ----
(***************************************************************************)
(* A model of the CRM backend's request handlers (src/index.js) over the   *)
(* document store they share: the Leads, SalesAgents and Comments          *)
(* collections, the requests that are suspended at an await, and the       *)
(* response each handler sends.                                            *)
(*                                                                         *)
(* One action is one stretch of a handler between two awaits.  A handler   *)
(* with one persistence call is one action; POST /leads/:id/comments has   *)
(* two awaits (the lookup, then the save) and is two actions, so that      *)
(* other requests interleave between them.                                 *)
(***************************************************************************)
EXTENDS Integers, Sequences, FiniteSets, TLC

\* ---------------------------------------------------------------- bounds

MaxLeads == 2        \* leads ever created
MaxAgents == 2       \* agents ever created
MaxComments == 2     \* comments ever created
MaxPending == 1      \* POST /leads/:id/comments requests suspended before the save
MaxTime == 2         \* distinct createdAt timestamps
MaxTagsLen == 3      \* characters in the tags query value
MaxQLeads == 2       \* leads in the stores the filter is checked on

VARIABLES
    leads,        \* the Leads collection: a set of documents
    agents,       \* the SalesAgents collection: a set of documents
    comments,     \* the Comments collection, in insertion order
    nextLead,     \* the number of the next Lead identifier the store mints
    nextAgent,    \* the same for SalesAgents
    nextComment,  \* the same for Comments
    pending,      \* addComment calls suspended between the lookup and the save
    resp          \* what the handler run by the last step sent

vars == <<leads, agents, comments, nextLead, nextAgent, nextComment, pending, resp>>
store == <<leads, agents, comments>>

\* ------------------------------------------------------------ identifiers

Null == "null"

LeadId(n) == "l" \o ToString(n)
AgentId(n) == "a" \o ToString(n)
CommentId(n) == "c" \o ToString(n)

\* The identifiers a request may carry: every one the store can mint, and
\* one (number 0) it never mints.
ReqLeadIds == {LeadId(n) : n \in 0..MaxLeads}
ReqAgentIds == {AgentId(n) : n \in 0..MaxAgents}
ReqCommentIds == {CommentId(n) : n \in 0..MaxComments}

EverLeadIds == {LeadId(n) : n \in 1..(nextLead - 1)}

LeadIdsOf(ls) == {l.id : l \in ls}
EmailsOf(as) == {a.email : a \in as}
Range(s) == {s[i] : i \in DOMAIN s}

\* ------------------------------------------------------- module bindings

\* The names index.js binds at module level (its requires, app, corsOptions,
\* the helper functions, PORT).
ModuleBindings ==
    {"express", "cors", "app", "dbConnection", "Lead", "SalesAgent",
     "Comment", "Tag", "corsOptions", "addLead", "getAllLeads", "getLeadById",
     "updateLead", "deleteLead", "deleteAgent", "addAgent", "getAllAgents",
     "addComment", "getCommentsByLead", "deleteComment", "PORT"}

\* Evaluating an identifier that is bound neither locally nor at module level
\* throws a ReferenceError.
Bound(name) == name \in ModuleBindings

\* -------------------------------------------------------------- responses

\* res.status(s).json(b) for request `req` of endpoint `op`.
Resp(op, req, status, body) ==
    [op |-> op, req |-> req, status |-> status, body |-> body, escaped |-> FALSE]

\* The handler's promise rejected: the handler sent nothing.
Escaped(op, req) ==
    [op |-> op, req |-> req, status |-> 0, body |-> [none |-> TRUE], escaped |-> TRUE]

\* A step that ends at an await: nothing is sent yet.
Awaiting(op, req) ==
    [op |-> op, req |-> req, status |-> 0, body |-> [none |-> TRUE], escaped |-> FALSE]

ErrBody(text) == [error |-> text]
MsgBody(text) == [message |-> text]

\* ------------------------------------------------------------------ leads

\* The Lead schema's enumerations.
LeadStatuses == {"New", "Contacted", "Qualified", "Closed"}
LeadSources == {"Website", "Referral"}

\* Schema validation of a Lead's status and source.
LeadValid(d) == d.status \in LeadStatuses /\ d.source \in LeadSources

NoAgent == [id |-> Null, email |-> Null]

\* .populate("salesAgentId"): the reference replaced by the agent document,
\* or by null when no agent has that identifier.
Populate(l) ==
    [l EXCEPT !.salesAgentId =
        IF \E a \in agents : a.id = l.salesAgentId
        THEN CHOOSE a \in agents : a.id = l.salesAgentId
        ELSE NoAgent]

\* new Lead(newLead) with the identifier the store mints.
NewLead(body, id) ==
    [id |-> id, status |-> body.status, source |-> body.source,
     salesAgentId |-> body.salesAgentId, tags |-> body.tags]

\* app.post("/leads")
PostLead(body, fail) ==
    IF fail \/ ~LeadValid(body)
    THEN /\ resp' = Resp("POST /leads", [body |-> body], 400, ErrBody("Failed to create lead."))
         /\ UNCHANGED <<leads, agents, comments, nextLead, nextAgent, nextComment, pending>>
    ELSE /\ nextLead <= MaxLeads
         /\ leads' = leads \cup {NewLead(body, LeadId(nextLead))}
         /\ nextLead' = nextLead + 1
         /\ resp' = Resp("POST /leads", [body |-> body], 201, NewLead(body, LeadId(nextLead)))
         /\ UNCHANGED <<agents, comments, nextAgent, nextComment, pending>>

\* A query-string or body key that may be absent is a sequence of length 0
\* (absent) or 1 (present, with that value).
Has(opt) == Len(opt) = 1
Val(opt) == opt[1]

\* JavaScript truthiness of an optional string: present and not empty.
Truthy(opt) == Has(opt) /\ Val(opt) # ""
\* The same for the tags value, a sequence of characters.
TruthyChars(opt) == Has(opt) /\ Val(opt) # <<>>

RECURSIVE SplitAt(_, _, _)
SplitAt(s, sep, cur) ==
    IF s = <<>> THEN <<cur>>
    ELSE IF Head(s) = sep THEN <<cur>> \o SplitAt(Tail(s), sep, <<>>)
    ELSE SplitAt(Tail(s), sep, Append(cur, Head(s)))

\* String.prototype.split(sep), on a sequence of characters.
Split(s, sep) == SplitAt(s, sep, <<>>)

\* BuildQuery with the tags value taken whole, as one tag, instead of split.
BuildQueryUnsplit(filters) ==
    [salesAgentId |-> IF Truthy(filters.salesAgentId) THEN filters.salesAgentId ELSE <<>>,
     status |-> IF Truthy(filters.status) THEN filters.status ELSE <<>>,
     source |-> IF Truthy(filters.source) THEN filters.source ELSE <<>>,
     tags |-> IF TruthyChars(filters.tags) THEN << <<Val(filters.tags)>> >> ELSE <<>>]

\* The `query` object getAllLeads builds from the request's filters.
BuildQuery(filters) ==
    [salesAgentId |-> IF Truthy(filters.salesAgentId) THEN filters.salesAgentId ELSE <<>>,
     status |-> IF Truthy(filters.status) THEN filters.status ELSE <<>>,
     source |-> IF Truthy(filters.source) THEN filters.source ELSE <<>>,
     tags |-> IF TruthyChars(filters.tags) THEN <<Split(Val(filters.tags), ",")>> ELSE <<>>]

\* Whether a Lead document matches a query object: equality on the scalar
\* keys, $in on the tags array (some element of the array is in the list).
Matches(l, query) ==
    /\ Has(query.salesAgentId) => l.salesAgentId = Val(query.salesAgentId)
    /\ Has(query.status) => l.status = Val(query.status)
    /\ Has(query.source) => l.source = Val(query.source)
    /\ Has(query.tags) => l.tags \cap Range(Val(query.tags)) # {}

\* getAllLeads
getAllLeads(filters) ==
    {Populate(l) : l \in {d \in leads : Matches(d, BuildQuery(filters))}}

\* app.get("/leads")
GetLeads(filters, fail) ==
    /\ resp' = IF fail
               THEN Resp("GET /leads", [query |-> filters], 500, ErrBody("Failed to fetch leads."))
               ELSE Resp("GET /leads", [query |-> filters], 200, [items |-> getAllLeads(filters)])
    /\ UNCHANGED <<leads, agents, comments, nextLead, nextAgent, nextComment, pending>>

\* app.get("/leads/:id")
GetLead(id, fail) ==
    /\ resp' = IF fail
               THEN Resp("GET /leads/:id", [id |-> id], 500, ErrBody("Failed to fetch lead."))
               ELSE IF id \notin LeadIdsOf(leads)
               THEN Resp("GET /leads/:id", [id |-> id], 404, ErrBody("Lead not found."))
               ELSE Resp("GET /leads/:id", [id |-> id], 200,
                         Populate(CHOOSE l \in leads : l.id = id))
    /\ UNCHANGED <<leads, agents, comments, nextLead, nextAgent, nextComment, pending>>

\* Update validators (runValidators: true) on the keys the update sets.
UpdateValid(data) ==
    /\ Has(data.status) => Val(data.status) \in LeadStatuses
    /\ Has(data.source) => Val(data.source) \in LeadSources

\* The document after findByIdAndUpdate merges `data` into it.
Merged(l, data) ==
    [l EXCEPT !.status = IF Has(data.status) THEN Val(data.status) ELSE @,
              !.source = IF Has(data.source) THEN Val(data.source) ELSE @,
              !.salesAgentId = IF Has(data.salesAgentId) THEN Val(data.salesAgentId) ELSE @]

\* app.put("/leads/:id")
PutLead(id, data, fail) ==
    IF fail \/ ~UpdateValid(data)
    THEN /\ resp' = Resp("PUT /leads/:id", [id |-> id, data |-> data], 400,
                         ErrBody("Failed to update lead."))
         /\ UNCHANGED <<leads, agents, comments, nextLead, nextAgent, nextComment, pending>>
    ELSE IF id \notin LeadIdsOf(leads)
    THEN /\ resp' = Resp("PUT /leads/:id", [id |-> id, data |-> data], 404,
                         ErrBody("Lead not found."))
         /\ UNCHANGED <<leads, agents, comments, nextLead, nextAgent, nextComment, pending>>
    ELSE LET old == CHOOSE l \in leads : l.id = id
             new == Merged(old, data)
         IN /\ leads' = (leads \ {old}) \cup {new}
            /\ resp' = Resp("PUT /leads/:id", [id |-> id, data |-> data], 200, Populate(new))
            /\ UNCHANGED <<agents, comments, nextLead, nextAgent, nextComment, pending>>

\* app.delete("/leads/:id")
DeleteLead(id, fail) ==
    IF fail
    THEN /\ resp' = Resp("DELETE /leads/:id", [id |-> id], 500, ErrBody("Failed to delete lead."))
         /\ UNCHANGED <<leads, agents, comments, nextLead, nextAgent, nextComment, pending>>
    ELSE IF id \notin LeadIdsOf(leads)
    THEN /\ resp' = Resp("DELETE /leads/:id", [id |-> id], 404, ErrBody("Lead not found."))
         /\ UNCHANGED <<leads, agents, comments, nextLead, nextAgent, nextComment, pending>>
    ELSE /\ leads' = {l \in leads : l.id # id}
         /\ resp' = Resp("DELETE /leads/:id", [id |-> id], 200, MsgBody("Lead deleted."))
         /\ UNCHANGED <<agents, comments, nextLead, nextAgent, nextComment, pending>>

\* PipelineCount without its status filter.
PipelineCountAll == Cardinality(leads)

\* The pipeline report's count: countDocuments({ status: { $ne: "Closed" } }).
PipelineCount == Cardinality({l \in leads : l.status # "Closed"})

\* app.get("/report/pipeline")
GetPipeline(fail) ==
    /\ resp' = IF fail
               THEN Resp("GET /report/pipeline", [none |-> TRUE], 500,
                         ErrBody("Failed to fetch pipeline report."))
               ELSE Resp("GET /report/pipeline", [none |-> TRUE], 200,
                         [totalLeadsInPipeline |-> PipelineCount])
    /\ UNCHANGED <<leads, agents, comments, nextLead, nextAgent, nextComment, pending>>

\* ----------------------------------------------------------------- agents

\* Schema validation of a SalesAgent: the email is syntactically valid.
AgentValid(body) == body.email # "not-an-email"

\* The error code of the store's duplicate-key error.
DupKeyCode == 11000

\* The unique index on SalesAgent.email: an insert of an email the collection
\* holds is rejected.
EmailTaken(body) == body.email \in EmailsOf(agents)

\* addAgent: agent.save().  The document is validated, then inserted; a
\* duplicate email is rejected with the duplicate-key error.  `code` is the
\* thrown error's code (0: it has none).
addAgent(body, fail) ==
    IF fail \/ ~AgentValid(body) THEN [threw |-> TRUE, code |-> 0]
    ELSE IF EmailTaken(body) THEN [threw |-> TRUE, code |-> DupKeyCode]
    ELSE [threw |-> FALSE, code |-> 0]

\* PostAgentCatch without its test of the error code.
PostAgentCatchAny(body, error) ==
    Resp("POST /agents", [body |-> body], 400, ErrBody("Failed to create agent."))

\* The catch block of app.post("/agents").
PostAgentCatch(body, error) ==
    IF error.code = 11000
    THEN Resp("POST /agents", [body |-> body], 409,
              ErrBody("Agent with this email already exists."))
    ELSE Resp("POST /agents", [body |-> body], 400, ErrBody("Failed to create agent."))

\* app.post("/agents")
PostAgent(body, fail) ==
    LET r == addAgent(body, fail)
    IN IF r.threw
       THEN /\ resp' = PostAgentCatch(body, r)
            /\ UNCHANGED <<leads, agents, comments, nextLead, nextAgent, nextComment, pending>>
       ELSE /\ nextAgent <= MaxAgents
            /\ agents' = agents \cup {[id |-> AgentId(nextAgent), email |-> body.email]}
            /\ nextAgent' = nextAgent + 1
            /\ resp' = Resp("POST /agents", [body |-> body], 201,
                            [id |-> AgentId(nextAgent), email |-> body.email])
            /\ UNCHANGED <<leads, comments, nextLead, nextComment, pending>>

\* app.get("/agents")
GetAgents(fail) ==
    /\ resp' = IF fail
               THEN Resp("GET /agents", [none |-> TRUE], 500, ErrBody("Failed to fetch agents."))
               ELSE Resp("GET /agents", [none |-> TRUE], 200, [items |-> agents])
    /\ UNCHANGED <<leads, agents, comments, nextLead, nextAgent, nextComment, pending>>

\* app.delete("/agents/:id").  Its first statement evaluates `mongoose`,
\* which index.js never binds: a ReferenceError, thrown before the first
\* await, so the lookup, the guard and the delete below it never run.  The
\* catch block has no binding (`catch {`) and evaluates `error`, unbound as
\* well: a second ReferenceError, thrown inside the catch block before its
\* res.status(500), so the handler's promise rejects and the handler sends
\* nothing.
DeleteAgent(id) ==
    /\ ~Bound("mongoose")
    /\ ~Bound("error")
    /\ resp' = Escaped("DELETE /agents/:id", [id |-> id])
    /\ UNCHANGED <<leads, agents, comments, nextLead, nextAgent, nextComment, pending>>

\* --------------------------------------------------------------- comments

\* LeadFound without the null test: addComment goes on to the save whatever
\* the lookup returned.
LeadFoundUntested(id) == TRUE

\* addComment's lookup and null test: Lead.findById(leadId) returned a Lead.
LeadFound(id) == id \in LeadIdsOf(leads)

\* CommentNotSaved without the handler's test of addComment's result: the
\* null is sent as the saved comment.
CommentNotSavedUntested(id, body) ==
    Resp("POST /leads/:id/comments", [id |-> id, body |-> body], 201, [none |-> TRUE])

\* The handler's response when addComment returned null.
CommentNotSaved(id, body) ==
    Resp("POST /leads/:id/comments", [id |-> id, body |-> body], 404,
         ErrBody("Lead not found."))

\* app.post("/leads/:id/comments") up to addComment's first await, the lookup.
\* A lookup that throws, or finds nothing, ends the request; one that finds
\* the Lead leaves the call suspended before comment.save().
PostCommentFind(id, body, fail) ==
    IF fail
    THEN /\ resp' = Resp("POST /leads/:id/comments", [id |-> id, body |-> body], 400,
                         ErrBody("Failed to add comment."))
         /\ UNCHANGED <<leads, agents, comments, nextLead, nextAgent, nextComment, pending>>
    ELSE IF ~LeadFound(id)
    THEN /\ resp' = CommentNotSaved(id, body)
         /\ UNCHANGED <<leads, agents, comments, nextLead, nextAgent, nextComment, pending>>
    ELSE /\ Cardinality(pending \cup {[lead |-> id, createdAt |-> body.createdAt]}) <= MaxPending
         /\ pending' = pending \cup {[lead |-> id, createdAt |-> body.createdAt]}
         /\ resp' = Awaiting("POST /leads/:id/comments", [id |-> id, body |-> body])
         /\ UNCHANGED <<leads, agents, comments, nextLead, nextAgent, nextComment>>

\* addComment from comment.save() on, and the handler's response.
PostCommentSave(p, fail) ==
    /\ p \in pending
    /\ pending' = pending \ {p}
    /\ IF fail
       THEN /\ resp' = Resp("POST /leads/:id/comments",
                            [id |-> p.lead, body |-> [createdAt |-> p.createdAt]], 400,
                            ErrBody("Failed to add comment."))
            /\ UNCHANGED <<leads, agents, comments, nextLead, nextAgent, nextComment>>
       ELSE /\ nextComment <= MaxComments
            /\ comments' = Append(comments, [id |-> CommentId(nextComment), lead |-> p.lead,
                                             createdAt |-> p.createdAt])
            /\ nextComment' = nextComment + 1
            /\ resp' = Resp("POST /leads/:id/comments",
                            [id |-> p.lead, body |-> [createdAt |-> p.createdAt]], 201,
                            [id |-> CommentId(nextComment), lead |-> p.lead,
                             createdAt |-> p.createdAt])
            /\ UNCHANGED <<leads, agents, nextLead, nextAgent>>

\* s with x put before the first element that x is newer than: s stays
\* ordered by createdAt, newest first.
RECURSIVE InsertDesc(_, _)
InsertDesc(s, x) ==
    IF s = <<>> THEN <<x>>
    ELSE IF x.createdAt > Head(s).createdAt THEN <<x>> \o s
    ELSE <<Head(s)>> \o InsertDesc(Tail(s), x)

\* .sort({ createdAt: -1 })
RECURSIVE SortDesc(_)
SortDesc(s) == IF s = <<>> THEN <<>> ELSE InsertDesc(SortDesc(Tail(s)), Head(s))

IsForLead(c, id) == c.lead = id

\* getCommentsByLead without its sort.
getCommentsByLeadUnsorted(id) == SelectSeq(comments, LAMBDA c : IsForLead(c, id))

\* getCommentsByLead
getCommentsByLead(id) == SortDesc(SelectSeq(comments, LAMBDA c : IsForLead(c, id)))

\* app.get("/leads/:id/comments")
GetComments(id, fail) ==
    /\ resp' = IF fail
               THEN Resp("GET /leads/:id/comments", [id |-> id], 500,
                         ErrBody("Failed to fetch comments."))
               ELSE Resp("GET /leads/:id/comments", [id |-> id], 200,
                         [list |-> getCommentsByLead(id)])
    /\ UNCHANGED <<leads, agents, comments, nextLead, nextAgent, nextComment, pending>>

\* app.delete("/comments/:id")
DeleteComment(id, fail) ==
    IF fail
    THEN /\ resp' = Resp("DELETE /comments/:id", [id |-> id], 500,
                         ErrBody("Failed to delete comment."))
         /\ UNCHANGED <<leads, agents, comments, nextLead, nextAgent, nextComment, pending>>
    ELSE IF \A i \in DOMAIN comments : comments[i].id # id
    THEN /\ resp' = Resp("DELETE /comments/:id", [id |-> id], 404, ErrBody("Comment not found."))
         /\ UNCHANGED <<leads, agents, comments, nextLead, nextAgent, nextComment, pending>>
    ELSE /\ comments' = SelectSeq(comments, LAMBDA c : c.id # id)
         /\ resp' = Resp("DELETE /comments/:id", [id |-> id], 200, MsgBody("Comment deleted."))
         /\ UNCHANGED <<leads, agents, nextLead, nextAgent, nextComment, pending>>

\* --------------------------------------------------------- specifications

NoResp == Awaiting("none", [none |-> TRUE])

Init ==
    /\ leads = {}
    /\ agents = {}
    /\ comments = <<>>
    /\ nextLead = 1
    /\ nextAgent = 1
    /\ nextComment = 1
    /\ pending = {}
    /\ resp = NoResp

\* Spec: agents, and the leads that reference them.
RefLeadBodies ==
    [status : {"New"}, source : {"Website"},
     salesAgentId : {Null} \cup {AgentId(n) : n \in 1..MaxAgents}, tags : {{}}]
RefUpdates ==
    [status : {<<>>}, source : {<<>>},
     salesAgentId : {<<AgentId(n)>> : n \in 1..MaxAgents}]
AgentBodies == [email : {"e1", "e2", "not-an-email"}]

Next ==
    \/ \E b \in RefLeadBodies, f \in BOOLEAN : PostLead(b, f)
    \/ \E id \in ReqLeadIds, d \in RefUpdates, f \in BOOLEAN : PutLead(id, d, f)
    \/ \E id \in ReqLeadIds, f \in BOOLEAN : DeleteLead(id, f)
    \/ \E b \in AgentBodies, f \in BOOLEAN : PostAgent(b, f)
    \/ \E f \in BOOLEAN : GetAgents(f)
    \/ \E id \in ReqAgentIds : DeleteAgent(id)

Spec == Init /\ [][Next]_vars

\* SpecLeads: the leads' status through create, update and delete, and the
\* pipeline report.
StatusLeadBodies ==
    [status : {"New", "Qualified", "Closed", "Archived"}, source : {"Website"},
     salesAgentId : {Null}, tags : {{}}]
StatusUpdates ==
    [status : {<<"New">>, <<"Closed">>, <<"Archived">>}, source : {<<>>},
     salesAgentId : {<<>>}]

NextLeads ==
    \/ \E b \in StatusLeadBodies, f \in BOOLEAN : PostLead(b, f)
    \/ \E id \in ReqLeadIds, d \in StatusUpdates, f \in BOOLEAN : PutLead(id, d, f)
    \/ \E id \in ReqLeadIds, f \in BOOLEAN : DeleteLead(id, f)
    \/ \E id \in ReqLeadIds, f \in BOOLEAN : GetLead(id, f)
    \/ \E f \in BOOLEAN : GetPipeline(f)

SpecLeads == Init /\ [][NextLeads]_vars

\* SpecComments: comments created and deleted while leads come and go.
PlainLeadBodies ==
    [status : {"New"}, source : {"Website"}, salesAgentId : {Null}, tags : {{}}]
PlainCommentBodies == [createdAt : {1}]

NextComments ==
    \/ \E b \in PlainLeadBodies, f \in BOOLEAN : PostLead(b, f)
    \/ \E id \in ReqLeadIds, f \in BOOLEAN : DeleteLead(id, f)
    \/ \E id \in ReqLeadIds, b \in PlainCommentBodies, f \in BOOLEAN : PostCommentFind(id, b, f)
    \/ \E p \in pending, f \in BOOLEAN : PostCommentSave(p, f)
    \/ \E id \in ReqCommentIds, f \in BOOLEAN : DeleteComment(id, f)

SpecComments == Init /\ [][NextComments]_vars

\* SpecSort: GET /leads/:id/comments on every Comments collection of up to
\* MaxComments comments, in every insertion order of their timestamps.
CommentFields == [lead : {LeadId(n) : n \in 1..MaxLeads}, createdAt : 1..MaxTime]
CommentStores ==
    UNION {{[i \in 1..k |-> [id |-> CommentId(i), lead |-> f[i].lead,
                             createdAt |-> f[i].createdAt]] :
            f \in [1..k -> CommentFields]} : k \in 0..MaxComments}

InitSort ==
    /\ leads = {}
    /\ agents = {}
    /\ comments \in CommentStores
    /\ nextLead = MaxLeads + 1
    /\ nextAgent = 1
    /\ nextComment = Len(comments) + 1
    /\ pending = {}
    /\ resp = NoResp

NextSort == \E id \in ReqLeadIds, f \in BOOLEAN : GetComments(id, f)

SpecSort == InitSort /\ [][NextSort]_vars

\* SpecQuery: GET /leads with every combination of filters, on every Leads
\* collection of up to MaxQLeads leads.
TagA == <<"a">>
TagC == <<"c">>
QueryLeadFields ==
    [status : {"New", "Closed"}, source : {"Website"},
     salesAgentId : {Null, AgentId(1)}, tags : {{TagA, TagC}, {TagC}}]
LeadStores ==
    UNION {{{NewLead(f[i], LeadId(i)) : i \in 1..k} :
            f \in [1..k -> QueryLeadFields]} : k \in 0..MaxQLeads}

TagsChars == {"a", "b", ","}
TagsValues == UNION {[1..n -> TagsChars] : n \in 0..MaxTagsLen}
Filters ==
    [salesAgentId : {<<>>, <<"">>, <<AgentId(1)>>},
     status : {<<>>, <<"">>, <<"Closed">>},
     source : {<<>>, <<"Referral">>},
     tags : {<<>>} \cup {<<t>> : t \in TagsValues}]

InitQuery ==
    /\ leads \in LeadStores
    /\ agents = {[id |-> AgentId(1), email |-> "e1"]}
    /\ comments = <<>>
    /\ nextLead = Cardinality(leads) + 1
    /\ nextAgent = 2
    /\ nextComment = 1
    /\ pending = {}
    /\ resp = NoResp

\* One request per store: GET /leads leaves the store as it is, so a second
\* request meets the same store.
NextQuery == resp = NoResp /\ \E q \in Filters, f \in BOOLEAN : GetLeads(q, f)

SpecQuery == InitQuery /\ [][NextQuery]_vars

\* ------------------------------------------------------------- properties

AgentIdsOf(as) == {a.id : a \in as}
IsDeleteAgent(r) == r.op = "DELETE /agents/:id"
IsPostComment(r) == r.op = "POST /leads/:id/comments"
Appended(old, new) == Len(new) = Len(old) + 1 /\ SubSeq(new, 1, Len(old)) = old

\* C1: a DELETE /agents/A handled while some Lead has salesAgentId = A ends
\* with the 400 response "Agent has assigned leads. Reassign or delete leads
\* first." and leaves the SalesAgents collection as it was.
C1_ReferencedAgentIsRefused ==
    [][(IsDeleteAgent(resp') /\ \E l \in leads : l.salesAgentId = resp'.req.id)
         => /\ resp'.status = 400
            /\ resp'.body = ErrBody("Agent has assigned leads. Reassign or delete leads first.")
            /\ agents' = agents]_vars

\* C2: a DELETE /agents/A of an agent in the store that no Lead references
\* ends with 200 and a message, and A is gone from the SalesAgents collection
\* (so that GET /agents, which returns the collection, omits it).
C2_UnreferencedAgentIsDeleted ==
    [][(/\ IsDeleteAgent(resp')
        /\ resp'.req.id \in AgentIdsOf(agents)
        /\ \A l \in leads : l.salesAgentId # resp'.req.id)
         => /\ resp'.status = 200
            /\ DOMAIN resp'.body = {"message"}
            /\ agents' = {a \in agents : a.id # resp'.req.id}]_vars

\* C3: no failure escapes its handler: every step that ends a request sent a
\* response, and a response that reports a failure has a 4xx/5xx status and a
\* body of the form { error: <text> }.
C3_EveryFailureIsAnswered ==
    /\ ~resp.escaped
    /\ resp.status \notin {0, 200, 201}
         => resp.status \in 400..599 /\ DOMAIN resp.body = {"error"}

\* C9: the race the claim describes needs the handler to get past its guard:
\* a DELETE /agents/A whose lookup finds no Lead referencing A goes on to
\* delete A, so that a Lead assigned to A after the lookup is left referencing
\* an agent that no longer exists.
C9_DeletePassesGuard ==
    [][(/\ IsDeleteAgent(resp')
        /\ resp'.req.id \in AgentIdsOf(agents)
        /\ \A l \in leads : l.salesAgentId # resp'.req.id)
         => resp'.req.id \notin AgentIdsOf(agents')]_vars

\* What holds instead of C9's race: no step removes an agent, so no Lead ever
\* references an agent that was deleted.
NoAgentIsEverRemoved == [][agents \subseteq agents']_vars

\* C5: no two SalesAgents in the store share an email, and a POST /agents
\* whose email is that of an agent in the store (its save rejected by the
\* unique index and by nothing else) ends with 409 and adds no agent.
C5_EmailsStayUnique ==
    [][/\ \A a, b \in agents' : a.email = b.email => a = b
       /\ \A body \in AgentBodies :
            (PostAgent(body, FALSE) /\ body.email \in EmailsOf(agents))
              => /\ resp'.status = 409
                 /\ resp'.body = ErrBody("Agent with this email already exists.")
                 /\ agents' = agents]_vars

\* C5's case: a second agent creation with an email in use was refused.
C5_Witness ==
    /\ resp.op = "POST /agents"
    /\ resp.status = 409
    /\ resp.req.body.email \in EmailsOf(agents)
    /\ Cardinality(agents) = 2

\* C4: a POST /leads/L/comments whose lookup of L completes and finds no Lead
\* ends with 404 "Lead not found.", and the Comments collection is unchanged
\* (nor is any save left to run).
C4_MissingLeadIs404 ==
    [][\A id \in ReqLeadIds, body \in PlainCommentBodies :
         (PostCommentFind(id, body, FALSE) /\ id \notin LeadIdsOf(leads))
           => /\ resp'.status = 404
              /\ resp'.body = ErrBody("Lead not found.")
              /\ comments' = comments
              /\ pending' = pending]_vars

\* C4's case: a comment was refused for a Lead that had existed and was
\* deleted, in a store that holds comments.
C4_Witness ==
    /\ IsPostComment(resp)
    /\ resp.status = 404
    /\ resp.req.id \in EverLeadIds \ LeadIdsOf(leads)
    /\ comments # <<>>

\* C10 as stated: at the step that saves a Comment with lead = L, the Lead L
\* is in the store.
C10_LeadPresentAtSave ==
    [][Appended(comments, comments')
         => comments'[Len(comments')].lead \in LeadIdsOf(leads)]_vars

\* C10, amended: a Comment with lead = L is saved only by a request whose own
\* lookup found L in the store, L being present at the moment of that lookup;
\* and between the lookup and the save only a successful DELETE /leads/L
\* removes L.
C10_LeadPresentAtLookup ==
    [][/\ \A p \in pending' \ pending : p.lead \in LeadIdsOf(leads)
       /\ Appended(comments, comments')
            => \E p \in pending \ pending' : p.lead = comments'[Len(comments')].lead
       /\ \A p \in pending :
            (p.lead \in LeadIdsOf(leads) /\ p.lead \notin LeadIdsOf(leads'))
              => /\ resp'.op = "DELETE /leads/:id"
                 /\ resp'.req.id = p.lead
                 /\ resp'.status = 200
       /\ \A p \in pending : p.lead \in EverLeadIds]_vars

\* C10's case: a comment was saved for a Lead that a DELETE /leads/L removed
\* between the request's lookup and its save.
C10_Witness ==
    /\ IsPostComment(resp)
    /\ resp.status = 201
    /\ resp.body.lead \notin LeadIdsOf(leads)
    /\ resp.body.lead \in EverLeadIds

\* C7: GET /leads/L/comments returns exactly the Comments whose lead is L,
\* each once, ordered by non-increasing createdAt.
C7_CommentsNewestFirst ==
    (resp.op = "GET /leads/:id/comments" /\ resp.status = 200)
      => LET list == resp.body.list
         IN /\ Range(list) = {c \in Range(comments) : c.lead = resp.req.id}
            /\ Len(list) = Cardinality(Range(list))
            /\ \A i, j \in DOMAIN list : i < j => list[i].createdAt >= list[j].createdAt

\* C7's case: two comments of the lead, inserted oldest first, and a comment
\* of another lead.
C7_Witness ==
    /\ resp.op = "GET /leads/:id/comments"
    /\ resp.status = 200
    /\ Len(resp.body.list) = 2
    /\ resp.body.list[1].createdAt > resp.body.list[2].createdAt
    /\ resp.body.list[1].id = CommentId(2)
    /\ resp.body.list[2].id = CommentId(1)

\* C8: the count GET /report/pipeline returns is the number of Leads minus
\* the number of Leads whose status is "Closed", and the request leaves the
\* store unchanged.
C8_PipelineCount ==
    [][resp'.op = "GET /report/pipeline"
         => /\ store' = store
            /\ resp'.status = 200
                 => resp'.body.totalLeadsInPipeline =
                      Cardinality(leads) - Cardinality({l \in leads : l.status = "Closed"})]_vars

\* C8's case: a report over a store with a Lead in the pipeline and a closed
\* Lead.
C8_Witness ==
    /\ resp.op = "GET /report/pipeline"
    /\ resp.status = 200
    /\ resp.body.totalLeadsInPipeline = 1
    /\ Cardinality(leads) = 2
    /\ \E l \in leads : l.status = "Closed"

\* The items of a comma-separated list: the stretches of s between two
\* neighbouring cuts, a cut being a comma or an end of s.
CommaItems(s) ==
    LET cuts == {0, Len(s) + 1} \cup {i \in 1..Len(s) : s[i] = ","}
    IN {SubSeq(s, p[1] + 1, p[2] - 1) :
          p \in {q \in cuts \X cuts :
                   q[1] < q[2] /\ \A k \in cuts : ~(q[1] < k /\ k < q[2])}}

\* The Leads GET /leads is to return when the keys that constrain are those
\* present in the query (they do, whatever their value) ...
SatisfiesPresent(l, q) ==
    /\ Has(q.salesAgentId) => l.salesAgentId = Val(q.salesAgentId)
    /\ Has(q.status) => l.status = Val(q.status)
    /\ Has(q.source) => l.source = Val(q.source)
    /\ Has(q.tags) => l.tags \cap CommaItems(Val(q.tags)) # {}

\* ... and when they are those present with a value that is not empty.
SatisfiesNonEmpty(l, q) ==
    /\ (Has(q.salesAgentId) /\ Val(q.salesAgentId) # "") => l.salesAgentId = Val(q.salesAgentId)
    /\ (Has(q.status) /\ Val(q.status) # "") => l.status = Val(q.status)
    /\ (Has(q.source) /\ Val(q.source) # "") => l.source = Val(q.source)
    /\ (Has(q.tags) /\ Len(Val(q.tags)) > 0) => l.tags \cap CommaItems(Val(q.tags)) # {}

\* C6 as stated: GET /leads returns exactly the Leads that satisfy every key
\* present in the query: equality for salesAgentId, status and source, a
\* non-empty intersection of the lead's tags with the comma-separated list for
\* tags.
C6_FilterByPresentKeys ==
    (resp.op = "GET /leads" /\ resp.status = 200)
      => /\ LeadIdsOf(resp.body.items) =
              LeadIdsOf({l \in leads : SatisfiesPresent(l, resp.req.query)})
         /\ Cardinality(resp.body.items) = Cardinality(LeadIdsOf(resp.body.items))

\* C6, amended: GET /leads returns exactly the Leads that satisfy every key
\* present with a non-empty value; a key that is absent, or present with the
\* empty string, imposes no constraint.
C6_FilterByNonEmptyKeys ==
    (resp.op = "GET /leads" /\ resp.status = 200)
      => /\ LeadIdsOf(resp.body.items) =
              LeadIdsOf({l \in leads : SatisfiesNonEmpty(l, resp.req.query)})
         /\ Cardinality(resp.body.items) = Cardinality(LeadIdsOf(resp.body.items))

\* C6's case: tags=a,b on a store with a lead tagged {a, c}, which is
\* returned, and a lead tagged {c}, which is not.
C6_Witness ==
    /\ resp.op = "GET /leads"
    /\ resp.status = 200
    /\ resp.req.query.tags = << <<"a", ",", "b">> >>
    /\ \E l \in leads : l.tags = {TagA, TagC} /\ l.id \in LeadIdsOf(resp.body.items)
    /\ \E l \in leads : l.tags = {TagC} /\ l.id \notin LeadIdsOf(resp.body.items)

====
